---- MODULE Spec2Model ----
(***************************************************************************)
(* A model of the BioContainers singularity-build-bot.                     *)
(*                                                                         *)
(* The repository holds two generations of the same tool,                  *)
(* populate_build.py and get_container_list.py, which share the fetchers   *)
(* and differ in the link extractor, the depot's 404 handling, the         *)
(* ordering of the new images and the way the build script is written.     *)
(* The variable `variant` says which of the two scripts is running.        *)
(*                                                                         *)
(* Strings are TLA+ strings; TLC evaluates Len, SubSeq and \o on them.     *)
(***************************************************************************)
EXTENDS Integers, Sequences, FiniteSets, TLC

VARIABLES
    variant,              \* which script runs
    \* the registry server
    pages,                \* the repository listing: a chain of pages
    \* main and the fetchers
    pc,                   \* control position
    error,                \* the exception that ended the run, None if none
    call,                 \* the tenacity-wrapped call in progress (sequential calls)
    \* QuayImageFetcher._fetch_names
    params,               \* the params of the current listing call; next_page None if absent
    repos,                \* the last RepositoryListResponse
    names,                \* the accumulated repository names
    requestLog,           \* every listing request sent so far: its next_page
                          \* and how the attempt ended
    \* QuayImageFetcher._fetch_tags
    tasks,                \* per request: the _fetch_single_repository call
    spawned,              \* how many of the requests aiometer has started
    channel,              \* completed responses not yet received by the loop
    images,               \* the accumulated name:tag list
    startedInSecond,      \* tasks aiometer started in the current second
    sentInSecond,         \* requests sent to the server in the current second
    \* SingularityImageFetcher.fetch_all
    urls,                 \* the depot URLs
    urlIndex,             \* the position of the loop in urls
    response,             \* what _fetch_images returned for the current URL
    simages,              \* the accumulated depot images
    depotLog,             \* every _fetch_images call so far: its URL, its last answer
    \* the build script
    script,               \* the renderings in the build script file
    \* results of the fetchers and of get_new_images
    quay_images,          \* the registry inventory (a list), None before it is returned
    singularity_images,   \* the depot inventory (a list), None before it is returned
    denylist,             \* the deny-list (a list)
    new_images,           \* the list get_new_images returned, None before the call
    npc,                  \* position of the get_new_images harness
    \* remove-old-builds.py
    listdir,              \* os.listdir(sys.argv[1])
    exists,               \* the names os.path.exists finds in the working directory
    imageIndex,           \* the position of the parsing loop in listdir
    image_dict,           \* image name -> parsed builds, in insertion order
    keyIndex,             \* the position of the archive loop in image_dict
    buildIndex,           \* the position of the inner loop in v, 0 outside it
    image_to_archive,     \* the names listed for archiving
    exit_status,          \* the message given to sys.exit, None if none
    apc                   \* control position of remove-old-builds.py

envVars == <<variant, pages>>
namesVars == <<params, repos, names, requestLog>>
tagVars == <<tasks, spawned, channel, images, startedInSecond, sentInSecond>>
depotVars == <<urls, urlIndex, response, simages, depotLog>>
newVars == <<quay_images, singularity_images, denylist, new_images, npc>>
archiveVars == <<listdir, exists, imageIndex, image_dict, keyIndex, buildIndex,
                 image_to_archive, exit_status, apc>>

vars == <<envVars, pc, error, call, namesVars, tagVars, depotVars, script, newVars,
         archiveVars>>

None == "None"

\* None where a list is expected.
NoList == <<None>>

Variants == {"populate_build", "get_container_list"}

-----------------------------------------------------------------------------
(* Strings *)

\* The characters the model's strings use, in ascending code point order.
Ascii == "%-./0123456789:A_abcdefghijklmnopqrstuvwxyz"

\* Python's ord(), up to an order isomorphism on the characters of Ascii.
ord(c) == CHOOSE i \in 1..Len(Ascii) : SubSeq(Ascii, i, i) = c

\* str.startswith
startswith(s, prefix) ==
    /\ Len(prefix) <= Len(s)
    /\ SubSeq(s, 1, Len(prefix)) = prefix

\* Python's < on str: lexicographic by code point, a proper prefix is smaller.
RECURSIVE StrLess(_, _)
StrLess(a, b) ==
    IF Len(b) = 0 THEN FALSE
    ELSE IF Len(a) = 0 THEN TRUE
    ELSE IF Head(a) = Head(b) THEN StrLess(Tail(a), Tail(b))
    ELSE ord(Head(a)) < ord(Head(b))

-----------------------------------------------------------------------------
(* Lists and sets *)

\* frozenset(list)
frozenset(list) == {list[i] : i \in 1..Len(list)}

\* One iteration order of a set (Python leaves the order of a set open; every
\* use below sorts the result, which makes the order immaterial).
RECURSIVE Iterate(_)
Iterate(S) ==
    IF S = {} THEN <<>>
    ELSE LET x == CHOOSE y \in S : TRUE IN <<x>> \o Iterate(S \ {x})

\* Every order in which a set can be iterated: Python fixes none, and the
\* order of a set of strings changes with the hash seed of the process.
Orders(S) == {o \in [1..Cardinality(S) -> S] : {o[i] : i \in 1..Cardinality(S)} = S}

\* The lists over S of length up to n.
SeqsUpTo(S, n) == UNION {[1..k -> S] : k \in 0..n}

\* list.insert at the place that keeps an ascending list ascending (the
\* insertion step of a stable sort).
RECURSIVE Insert(_, _)
Insert(x, list) ==
    IF list = <<>> THEN <<x>>
    ELSE IF StrLess(x, Head(list)) THEN <<x>> \o list
    ELSE <<Head(list)>> \o Insert(x, Tail(list))

\* A sort that leaves the list as it is.
Unsorted(list) == list

\* sorted(iterable) on strings: ascending, stable.
RECURSIVE sorted(_)
sorted(list) ==
    IF list = <<>> THEN <<>>
    ELSE Insert(list[Len(list)], sorted(SubSeq(list, 1, Len(list) - 1)))

-----------------------------------------------------------------------------
(* get_new_images *)

\* The literal of populate_build.py's grouping test.
EcosystemPrefix == "bioconductor"

\* A deny-list test that matches whole references only.
NotDeniedExact(image, deny) ==
    ~ \E i \in 1..Len(deny) : image = deny[i]

\* A deny-list test that matches an entry anywhere in the reference.
NotDeniedSubstring(image, deny) ==
    ~ \E i \in 1..Len(deny) : \E k \in 1..Len(image) :
        startswith(SubSeq(image, k, Len(image)), deny[i])

\* A deny-list test that looks at the first entry only.
NotDeniedByFirst(image, deny) ==
    deny = <<>> \/ ~ startswith(image, deny[1])

\* lambda image: not any(image.startswith(entry) for entry in denylist)
NotDenied(image, deny) ==
    ~ \E i \in 1..Len(deny) : startswith(image, deny[i])

\* The two groups concatenated the other way round.
GetNewImagesTrailingFirst(quay, sing, deny) ==
    LET diff   == sorted(Iterate(frozenset(quay) \ frozenset(sing)))
        result == sorted(SelectSeq(diff, LAMBDA image : NotDenied(image, deny)))
        others == SelectSeq(result, LAMBDA img : ~ startswith(img, EcosystemPrefix))
        bioconductor == SelectSeq(result, LAMBDA img : startswith(img, EcosystemPrefix))
    IN  bioconductor \o others

\* populate_build.py from the sort of the difference on, `iteration` being
\* the order in which the set difference is iterated.
GroupedOf(iteration, deny) ==
    LET diff   == sorted(iteration)
        result == sorted(SelectSeq(diff, LAMBDA image : NotDenied(image, deny)))
        others == SelectSeq(result, LAMBDA img : ~ startswith(img, EcosystemPrefix))
        bioconductor == SelectSeq(result, LAMBDA img : startswith(img, EcosystemPrefix))
    IN  others \o bioconductor

\* populate_build.py: diff, filter, sort, then the two groups.
GetNewImagesGrouped(quay, sing, deny) ==
    GroupedOf(Iterate(frozenset(quay) \ frozenset(sing)), deny)

\* get_container_list.py from the filter on.
SortedOf(iteration, deny) ==
    sorted(SelectSeq(iteration, LAMBDA image : NotDenied(image, deny)))

\* get_container_list.py: diff, filter, one sort.
GetNewImagesSorted(quay, sing, deny) ==
    SortedOf(Iterate(frozenset(quay) \ frozenset(sing)), deny)

get_new_images(v, quay, sing, deny) ==
    IF v = "populate_build"
    THEN GetNewImagesGrouped(quay, sing, deny)
    ELSE GetNewImagesSorted(quay, sing, deny)

\* The references and deny-list entries the inputs are drawn from.
ImageUniverse ==
    {"zeta:1", "alpha:2", "bioconductor-x:1", "bioconductor-a:2",
     "foo:1", "foobar:2", "barfoo:1"}

\* The reconciler's depot inventory holds any subset of these: one plain image, one that the
\* deny-list entries match, one of the trailing group.
DepotUniverse == {"alpha:2", "foo:1", "bioconductor-a:2"}

DenyUniverse == {"foo", "bioconductor-x"}

\* The deny-lists parse_denylist can read.
DenyLists == {Iterate(S) : S \in SUBSET DenyUniverse}

-----------------------------------------------------------------------------
(* HTTP attempts and the tenacity retry policy *)

\* What one attempt can meet: a 200 response with a body that validates, a
\* 200 response with a body that does not, an error status (raise_for_status
\* raises httpx.HTTPStatusError), or no response at all.
Outcomes == {"ok", "invalid", "status404", "status503", "ConnectError"}

\* The exception an attempt raises on an outcome, None if it returns.
ExceptionOf(outcome) ==
    CASE outcome = "ok" -> None
      [] outcome = "invalid" -> "ValidationError"
      [] outcome = "status404" -> "HTTPStatusError"
      [] outcome = "status503" -> "HTTPStatusError"
      [] outcome = "ConnectError" -> "ConnectError"

\* stop=tenacity.stop_after_attempt(5)
StopAfterAttempt == 5

\* A policy that retries on every exception.
RetryIfAny(exc) == TRUE

\* retry=tenacity.retry_if_exception_type(httpx.HTTPError): transport errors
\* and error statuses are httpx.HTTPError, pydantic's ValidationError is not.
RetryIf(exc) == exc \in {"HTTPStatusError", "ConnectError"}

\* A policy that stops one attempt late.
tenacityOneMore(attempt_number, exc) ==
    IF exc = None THEN "return"
    ELSE IF ~ RetryIf(exc) THEN "raise"
    ELSE IF attempt_number > StopAfterAttempt THEN "raise"
    ELSE "retry"

\* What the retry decorator does once an attempt has ended: return its value,
\* wait and call again, or raise (reraise=True: the attempt's own exception).
tenacity(attempt_number, exc) ==
    IF exc = None THEN "return"
    ELSE IF ~ RetryIf(exc) THEN "raise"
    ELSE IF attempt_number >= StopAfterAttempt THEN "raise"
    ELSE "retry"

\* A call that goes on counting where the call before it stopped.
CarriedAttempts ==
    [st |-> "sending", attempt |-> call.attempt + 1, sent |-> 1, failed |-> 0,
     exc |-> None]

\* A call at its first attempt, the request sent. `sent` counts the requests
\* the call has made, `failed` the attempts that raised, `exc` is the last
\* exception raised.
NewCall == [st |-> "sending", attempt |-> 1, sent |-> 1, failed |-> 0, exc |-> None]

NoCall == [st |-> "idle", attempt |-> 0, sent |-> 0, failed |-> 0, exc |-> None]

\* A task of the fan-out that has handed over its result, and one that was
\* cancelled; neither keeps its retry state.
Finished == [NoCall EXCEPT !.st = "returned"]

Cancelled == [NoCall EXCEPT !.st = "cancelled"]

\* The call after an attempt that raised `exc` (None: it returned).
AfterAttempt(c, exc) ==
    LET decision == tenacity(c.attempt, exc)
    IN  CASE decision = "return" -> [c EXCEPT !.st = "returned"]
          [] decision = "retry" ->
                [c EXCEPT !.st = "backoff", !.failed = @ + 1, !.exc = exc]
          [] decision = "raise" ->
                [c EXCEPT !.st = "raised", !.failed = @ + 1, !.exc = exc]

\* The call at its next attempt, once the wait is over.
NextAttempt(c) ==
    [c EXCEPT !.st = "sending", !.attempt = @ + 1, !.sent = @ + 1]

-----------------------------------------------------------------------------
(* The registry's repository listing *)

\* The repositories of the namespace, in the order the registry lists them.
RepoList == <<"alpha", "zeta", "bioconductor-a", "foo">>

\* The tags of each repository, in the order of the response's tags object.
RepoTags ==
    [name \in {RepoList[i] : i \in 1..Len(RepoList)} |->
        CASE name = "alpha" -> <<"1", "2">>
          [] name = "zeta" -> <<>>
          [] name = "bioconductor-a" -> <<"2">>
          [] name = "foo" -> <<"1">>]

\* Most repositories listed, most pages of a listing.
MaxRepos == 3
MaxPages == 3

\* params and repos while no listing call has been made: a dictionary
\* without keys, a response not yet received.
NoParams == [public |-> None, repo_kind |-> None, namespace |-> None, next_page |-> None]

NoPage == [repositories |-> <<>>, next_page |-> None]

\* The cursor that leads to page i + 1.
Cursor(i) == "c" \o ToString(i)

\* The listing of the first n repositories cut into p pages at `cuts`.
PageChain(n, p, cuts) ==
    [i \in 1..p |->
        [repositories |->
            SubSeq(RepoList, (IF i = 1 THEN 0 ELSE cuts[i - 1]) + 1,
                             IF i = p THEN n ELSE cuts[i]),
         next_page |-> IF i = p THEN None ELSE Cursor(i)]]

\* The listings of the first n repositories, n up to MaxRepos, in up to
\* MaxPages pages; a page may be empty.
PageChains ==
    UNION {UNION {{PageChain(n, p, cuts) :
                      cuts \in {c \in [1..(p - 1) -> 0..n] :
                                  \A i \in 2..(p - 1) : c[i - 1] <= c[i]}} :
                  p \in 1..MaxPages} :
           n \in 0..(IF MaxRepos < Len(RepoList) THEN MaxRepos ELSE Len(RepoList))}

\* GET repository?...[&next_page=cursor]: the page the cursor leads to; a
\* cursor on the last page leads back to the first page.
ServePage(cursor) ==
    IF cursor = None THEN pages[1]
    ELSE pages[((CHOOSE i \in 1..Len(pages) : pages[i].next_page = cursor)
                    % Len(pages)) + 1]

\* A listing whose last page carries a cursor as well: the chain never ends.
LoopChain(chain) == [chain EXCEPT ![Len(chain)].next_page = Cursor(Len(chain))]

-----------------------------------------------------------------------------
(* QuayImageFetcher._fetch_names *)

\* params = {"public": "true", "repo_kind": "image"};
\* params["namespace"] = repository; no next_page yet.
BaseParams ==
    [public |-> "true", repo_kind |-> "image", namespace |-> "biocontainers",
     next_page |-> None]

\* A listing request on its way with the given params, and the log once its
\* attempt has ended.
Request(p) ==
    [next_page |-> p.next_page, public |-> p.public, repo_kind |-> p.repo_kind,
     namespace |-> p.namespace, result |-> "pending"]

Answered(log, ok) ==
    [log EXCEPT ![Len(log)].result = IF ok THEN "ok" ELSE "failed"]

\* names = []; repos = await cls._fetch_repository_list(client, params)
FetchNamesFirst ==
    /\ pc = "names_start"
    /\ names' = <<>>
    /\ params' = BaseParams
    /\ call' = NewCall
    /\ requestLog' = <<Request(params')>>
    /\ pc' = "page_call"
    /\ UNCHANGED <<archiveVars, envVars, error, repos, tagVars, depotVars, script, newVars>>

\* One attempt of _fetch_repository_list ends: client.get, raise_for_status,
\* parse_obj, then the retry policy.
PageAttemptEnds ==
    /\ pc = "page_call"
    /\ call.st = "sending"
    /\ \E outcome \in Outcomes :
        LET c == AfterAttempt(call, ExceptionOf(outcome)) IN
        /\ call' = c
        /\ repos' = IF c.st = "returned" THEN ServePage(params.next_page) ELSE repos
        /\ pc' = CASE c.st = "returned" -> "page_returned"
                    [] c.st = "raised" -> "raised"
                    [] OTHER -> pc
        /\ error' = IF c.st = "raised" THEN c.exc ELSE error
    /\ requestLog' = Answered(requestLog, call'.st = "returned")
    /\ UNCHANGED <<archiveVars, envVars, params, names, tagVars, depotVars, script, newVars>>

\* The wait is over: the same call is made again with the same params.
PageRetry ==
    /\ pc = "page_call"
    /\ call.st = "backoff"
    /\ call' = NextAttempt(call)
    /\ requestLog' = Append(requestLog, Request(params))
    /\ UNCHANGED <<archiveVars, envVars, pc, error, params, repos, names, tagVars, depotVars, script, newVars>>

\* The pages fetched so far, and the most the exploration fetches of a chain
\* that does not end: as many pages as the longest chain that ends (the loop
\* itself has no cap).
Fetched(log) == Len(SelectSeq(log, LAMBDA r : r.result = "ok"))

MaxFetched == IF MaxPages > Len(RepoList) THEN MaxPages ELSE Len(RepoList)

\* A loop that never adds next_page to the params.
StaleParams(page, current) == current

\* Params that carry the cursor alone.
NextPageOnly(page, current) ==
    [public |-> None, repo_kind |-> None, namespace |-> None,
     next_page |-> page.next_page]

\* params={**params, "next_page": repos.next_page}
NextPageParams(page, current) == [current EXCEPT !.next_page = page.next_page]

\* A loop that requests a page whatever the response's cursor.
NamesNextPageAlways ==
    /\ pc = "page_returned"
    /\ Fetched(requestLog) < MaxFetched
    /\ names' = names \o repos.repositories
    /\ params' = NextPageParams(repos, params)
    /\ call' = NewCall
    /\ requestLog' = Append(requestLog, Request(params'))
    /\ pc' = "page_call"
    /\ UNCHANGED <<archiveVars, envVars, error, repos, tagVars, depotVars, script, newVars>>

\* names.extend(...); while repos.next_page: the next page is requested.
NamesNextPage ==
    /\ pc = "page_returned"
    /\ repos.next_page # None
    /\ Fetched(requestLog) < MaxFetched
    /\ names' = names \o repos.repositories
    /\ params' = NextPageParams(repos, params)
    /\ call' = NewCall
    /\ requestLog' = Append(requestLog, Request(params'))
    /\ pc' = "page_call"
    /\ UNCHANGED <<archiveVars, envVars, error, repos, tagVars, depotVars, script, newVars>>

\* names.extend(...); repos.next_page is None: return names.
NamesReturn ==
    /\ pc = "page_returned"
    /\ repos.next_page = None
    /\ names' = names \o repos.repositories
    /\ pc' = "names_returned"
    /\ UNCHANGED <<archiveVars, envVars, error, call, params, repos, requestLog, tagVars, depotVars, script, newVars>>

-----------------------------------------------------------------------------
(* QuayImageFetcher._fetch_tags: the aiometer fan-out *)

\* max_concurrency and max_per_second of _fetch_tags (the code's defaults are
\* 10 and 10; the model runs the fan-out with smaller limits).
max_concurrency == 2
max_per_second == 2

\* No fan-out is running.
TagsIdle ==
    /\ tasks = <<>>
    /\ spawned = 0
    /\ channel = <<>>
    /\ images = <<>>
    /\ startedInSecond = 0
    /\ sentInSecond = 0

\* The tasks aiometer has started and that have not finished: each holds one
\* of the max_at_once slots, also while it waits between two attempts.
Running == {i \in 1..Len(tasks) : tasks[i].st \in {"sending", "backoff"}}

\* GET repository/{repository}/{name}: the SingleRepositoryResponse.
ServeRepository(name) == [name |-> name, tags |-> RepoTags[name]]

\* (f"{repo.name}:{tag}" for tag in repo.tags)
ImageRefs(repo) == [k \in 1..Len(repo.tags) |-> repo.name \o ":" \o repo.tags[k]]

\* requests = [...]; images = []; async with aiometer.amap(...) as results
FetchTagsStart ==
    /\ pc = "tags_start"
    /\ tasks' = [i \in 1..Len(names) |-> NoCall]
    /\ spawned' = 0
    /\ channel' = <<>>
    /\ images' = <<>>
    /\ startedInSecond' = 0
    /\ sentInSecond' = 0
    /\ pc' = "tags"
    /\ UNCHANGED <<archiveVars, envVars, error, call, namesVars, depotVars, script, newVars>>

\* A meter that observes the rate only.
MayStartRateOnly(running, started) == started < max_per_second

\* aiometer may start the next task: a slot is free and the rate allows it.
MayStart(running, started) ==
    /\ running < max_concurrency
    /\ started < max_per_second

\* One more request sent in the current second; the count stops at one above
\* the limit.
CountSent(n) == IF n > max_per_second THEN n ELSE n + 1

\* aiometer starts the next request's task, in the order of `requests`; the
\* task sends its first attempt.
SpawnTask ==
    /\ pc = "tags"
    /\ spawned < Len(names)
    /\ MayStart(Cardinality(Running), startedInSecond)
    /\ spawned' = spawned + 1
    /\ tasks' = [tasks EXCEPT ![spawned + 1] = NewCall]
    /\ startedInSecond' = startedInSecond + 1
    /\ sentInSecond' = CountSent(sentInSecond)
    /\ UNCHANGED <<archiveVars, envVars, pc, error, call, namesVars, channel, images, depotVars, script, newVars>>

\* A fan-out that drops a task whose call raised and carries on.
TagAttemptEndsSwallowed(i) ==
    /\ pc = "tags"
    /\ tasks[i].st = "sending"
    /\ \E outcome \in Outcomes :
        LET c == AfterAttempt(tasks[i], ExceptionOf(outcome)) IN
        CASE c.st = "returned" ->
                /\ tasks' = [tasks EXCEPT ![i] = Finished]
                /\ channel' = Append(channel, ServeRepository(names[i]))
          [] c.st = "backoff" ->
                /\ tasks' = [tasks EXCEPT ![i] = c]
                /\ UNCHANGED channel
          [] c.st = "raised" ->
                /\ tasks' = [tasks EXCEPT ![i] = Finished]
                /\ UNCHANGED channel
    /\ UNCHANGED <<archiveVars, envVars, pc, error, call, namesVars, spawned, images,
                   startedInSecond, sentInSecond, depotVars, script, newVars>>

\* One attempt of task i's _fetch_single_repository ends. A returned value
\* goes to the result channel and frees the slot; a raised exception cancels
\* the task group and leaves _fetch_tags.
TagAttemptEnds(i) ==
    /\ pc = "tags"
    /\ tasks[i].st = "sending"
    /\ \E outcome \in Outcomes :
        LET c == AfterAttempt(tasks[i], ExceptionOf(outcome)) IN
        CASE c.st = "returned" ->
                /\ tasks' = [tasks EXCEPT ![i] = Finished]
                /\ channel' = Append(channel, ServeRepository(names[i]))
                /\ UNCHANGED <<pc, error, images>>
          [] c.st = "backoff" ->
                /\ tasks' = [tasks EXCEPT ![i] = c]
                /\ UNCHANGED <<pc, error, channel, images>>
          [] c.st = "raised" ->
                /\ tasks' = [j \in 1..Len(tasks) |->
                                IF j = i THEN c
                                ELSE IF tasks[j].st \in {"sending", "backoff"}
                                     THEN Cancelled
                                     ELSE tasks[j]]
                /\ channel' = <<>>
                /\ images' = <<>>
                /\ pc' = "raised"
                /\ error' = c.exc
    /\ UNCHANGED <<archiveVars, envVars, call, namesVars, spawned, startedInSecond, sentInSecond,
                   depotVars, script, newVars>>

\* Task i's wait is over: it sends the same request again.
TagRetry(i) ==
    /\ pc = "tags"
    /\ tasks[i].st = "backoff"
    /\ tasks' = [tasks EXCEPT ![i] = NextAttempt(tasks[i])]
    /\ sentInSecond' = CountSent(sentInSecond)
    /\ UNCHANGED <<archiveVars, envVars, pc, error, call, namesVars, spawned, channel, images,
                   startedInSecond, depotVars, script, newVars>>

\* An assignment in place of the extend.
Overwrite(list, repo) == ImageRefs(repo)

\* images.extend(...) with the tags of one received response.
Extend(list, repo) == list \o ImageRefs(repo)

\* async for repo in results: images.extend(...)
ReceiveResult ==
    /\ pc = "tags"
    /\ channel # <<>>
    /\ images' = Extend(images, Head(channel))
    /\ channel' = Tail(channel)
    /\ UNCHANGED <<archiveVars, envVars, pc, error, call, namesVars, tasks, spawned,
                   startedInSecond, sentInSecond, depotVars, script, newVars>>

\* Every task has finished and every result was received: return images.
FetchTagsReturn ==
    /\ pc = "tags"
    /\ spawned = Len(names)
    /\ \A i \in 1..Len(tasks) : tasks[i].st = "returned"
    /\ channel = <<>>
    /\ pc' = "tags_returned"
    /\ UNCHANGED <<archiveVars, envVars, error, call, namesVars, tagVars, depotVars, script, newVars>>

\* A second passes.
Tick ==
    /\ pc = "tags"
    /\ startedInSecond + sentInSecond > 0
    /\ startedInSecond' = 0
    /\ sentInSecond' = 0
    /\ UNCHANGED <<archiveVars, envVars, pc, error, call, namesVars, tasks, spawned, channel,
                   images, depotVars, script, newVars>>

-----------------------------------------------------------------------------
(* ContainerImageParser *)

\* sub in s
Contains(s, sub) ==
    \E k \in 1..(Len(s) - Len(sub) + 1) : SubSeq(s, k, k + Len(sub) - 1) = sub

\* s.replace(old, new, 1), for s that contains old
ReplaceFirst(s, old, new) ==
    LET k == CHOOSE i \in 1..(Len(s) - Len(old) + 1) :
                /\ SubSeq(s, i, i + Len(old) - 1) = old
                /\ \A j \in 1..(i - 1) : SubSeq(s, j, j + Len(old) - 1) # old
    IN  SubSeq(s, 1, k - 1) \o new \o SubSeq(s, k + Len(old), Len(s))

\* for attr, value in attrs: the images one start tag's attributes add.
RECURSIVE HrefImages(_, _)
HrefImages(v, attrs) ==
    IF attrs = <<>> THEN <<>>
    ELSE LET attr == Head(attrs)[1]
             value == Head(attrs)[2]
             found ==
                 IF attr # "href" THEN <<>>
                 ELSE IF v = "populate_build"
                      THEN IF Contains(value, "%3A")
                           THEN <<ReplaceFirst(value, "%3A", ":")>> ELSE <<>>
                      ELSE IF Contains(value, ":") THEN <<value>> ELSE <<>>
         IN  found \o HrefImages(v, Tail(attrs))

\* handle_starttag: the images one start tag adds.
handle_starttag(v, tag, attrs) ==
    IF tag # "a" THEN <<>> ELSE HrefImages(v, attrs)

\* parser.feed(body); parser.images: a body is the list of its start tags.
RECURSIVE ParserImages(_, _)
ParserImages(v, body) ==
    IF body = <<>> THEN <<>>
    ELSE handle_starttag(v, Head(body).tag, Head(body).attrs)
            \o ParserImages(v, Tail(body))

\* parser.feed(body) raises TypeError: html.parser hands an attribute written
\* without a value to handle_starttag as (name, None), and the membership
\* test on the value of such an href of an <a> raises.
ParserRaises(body) ==
    \E k \in 1..Len(body) :
        /\ body[k].tag = "a"
        /\ \E n \in 1..Len(body[k].attrs) :
              body[k].attrs[n][1] = "href" /\ body[k].attrs[n][2] = None

-----------------------------------------------------------------------------
(* SingularityImageFetcher *)

\* <a href="value">
Anchor(value) == [tag |-> "a", attrs |-> << <<"href", value>> >>]

\* The depot's directory listings.
DepotUrls == {"depot/a", "depot/b"}

DepotBody ==
    [url \in DepotUrls |->
        CASE url = "depot/a" ->
                <<Anchor("../"), Anchor("alpha%3A2"), Anchor("foo:1")>>
          [] url = "depot/b" ->
                <<Anchor("bioconductor-a%3A2"), Anchor("bioconductor-a:2"),
                  Anchor("alpha%3A2"), Anchor("foo:1")>>]

\* Most depot URLs given.
MaxUrls == 2

UrlLists == SeqsUpTo(DepotUrls, MaxUrls) \ {<<>>}

\* What one attempt of _fetch_images can meet: a 200 response with a body,
\* a 200 response with an empty body, an error status, no response.
DepotOutcomes == {"ok", "empty", "status404", "status503", "ConnectError"}

\* The exception an attempt of _fetch_images raises, None if it returns:
\* get_container_list.py returns None on a 404 before raise_for_status.
DepotExceptionOf(v, outcome) ==
    CASE outcome = "ok" -> None
      [] outcome = "empty" -> None
      [] outcome = "status404" ->
            IF v = "get_container_list" THEN None ELSE "HTTPStatusError"
      [] outcome = "status503" -> "HTTPStatusError"
      [] outcome = "ConnectError" -> "ConnectError"

\* What _fetch_images returns: None, or response.text.
ReturnedNone == [none |-> TRUE, text |-> <<>>]

ReturnedText(body) == [none |-> FALSE, text |-> body]

\* The value an attempt of _fetch_images returns on an outcome.
DepotValueOf(url, outcome) ==
    CASE outcome = "ok" -> ReturnedText(DepotBody[url])
      [] outcome = "empty" -> ReturnedText(<<>>)
      [] OTHER -> ReturnedNone

\* if response := ...: None and the empty text are false.
Truthy(r) == ~ r.none /\ r.text # <<>>

\* The log entry of a call to _fetch_images whose request is with the server.
DepotRequest(url) == [url |-> url, result |-> "pending"]

\* The log once the last call's request has met `outcome`.
DepotAnswered(log, outcome) == [log EXCEPT ![Len(log)].result = outcome]

DepotIdle ==
    /\ urls = <<>>
    /\ urlIndex = 0
    /\ response = ReturnedNone
    /\ simages = <<>>
    /\ depotLog = <<>>

\* A main that goes on to the depot after a registry fetch that failed.
DepotStartAnyway ==
    /\ pc \in {"depot_start", "raised"}
    /\ depotLog = <<>>
    /\ urls' \in UrlLists
    /\ urlIndex' = 1
    /\ simages' = <<>>
    /\ call' = NewCall
    /\ depotLog' = <<DepotRequest(urls'[1])>>
    /\ pc' = "depot_call"
    /\ UNCHANGED <<archiveVars, envVars, error, namesVars, tagVars, response, script, newVars>>

\* images = []; for url in urls: the first _fetch_images call.
DepotStart ==
    /\ pc = "depot_start"
    /\ urls' \in UrlLists
    /\ urlIndex' = 1
    /\ simages' = <<>>
    /\ call' = NewCall
    /\ depotLog' = <<DepotRequest(urls'[1])>>
    /\ pc' = "depot_call"
    /\ UNCHANGED <<archiveVars, envVars, error, namesVars, tagVars, response, script, newVars>>

\* A loop that catches the exception of a call that failed for good, takes
\* the page as empty and goes on.
DepotAttemptEndsSwallowed ==
    /\ pc = "depot_call"
    /\ call.st = "sending"
    /\ \E outcome \in DepotOutcomes :
        LET c == AfterAttempt(call, DepotExceptionOf(variant, outcome)) IN
        /\ call' = c
        /\ response' = CASE c.st = "returned" -> DepotValueOf(urls[urlIndex], outcome)
                          [] c.st = "raised" -> ReturnedNone
                          [] OTHER -> response
        /\ pc' = IF c.st \in {"returned", "raised"} THEN "depot_returned" ELSE pc
        /\ error' = IF c.st = "raised" THEN c.exc ELSE error
        /\ depotLog' = DepotAnswered(depotLog, outcome)
    /\ UNCHANGED <<archiveVars, envVars, namesVars, tagVars, urls, urlIndex, simages, script, newVars>>

\* One attempt of _fetch_images ends.
DepotAttemptEnds ==
    /\ pc = "depot_call"
    /\ call.st = "sending"
    /\ \E outcome \in DepotOutcomes :
        LET c == AfterAttempt(call, DepotExceptionOf(variant, outcome)) IN
        /\ call' = c
        /\ response' = IF c.st = "returned"
                        THEN DepotValueOf(urls[urlIndex], outcome) ELSE response
        /\ pc' = CASE c.st = "returned" -> "depot_returned"
                    [] c.st = "raised" -> "raised"
                    [] OTHER -> pc
        /\ error' = IF c.st = "raised" THEN c.exc ELSE error
        /\ depotLog' = DepotAnswered(depotLog, outcome)
    /\ UNCHANGED <<archiveVars, envVars, namesVars, tagVars, urls, urlIndex, simages, script, newVars>>

\* The wait is over: the same URL is requested again.
DepotRetry ==
    /\ pc = "depot_call"
    /\ call.st = "backoff"
    /\ call' = NextAttempt(call)
    /\ depotLog' = DepotAnswered(depotLog, "pending")
    /\ UNCHANGED <<archiveVars, envVars, pc, error, namesVars, tagVars, urls, urlIndex, response,
                   simages, script, newVars>>

\* A loop that adds only the references the list does not hold yet.
DepotExtendNew(v, list, r) ==
    IF Truthy(r)
    THEN list \o SelectSeq(ParserImages(v, r.text),
                           LAMBDA img : \A i \in 1..Len(list) : list[i] # img)
    ELSE list

\* parser.feed(response); images.extend(parser.images), or the warning.
DepotExtend(v, list, r) ==
    IF Truthy(r) THEN list \o ParserImages(v, r.text) ELSE list

\* parser.feed(response) raises: the exception leaves fetch_all and main.
FeedRaises(r) == Truthy(r) /\ ParserRaises(r.text)

\* The body of the loop after the call, then the next URL's call.
DepotNextUrl ==
    /\ pc = "depot_returned"
    /\ urlIndex < Len(urls)
    /\ ~ FeedRaises(response)
    /\ simages' = DepotExtend(variant, simages, response)
    /\ urlIndex' = urlIndex + 1
    /\ call' = NewCall
    /\ depotLog' = Append(depotLog, DepotRequest(urls[urlIndex + 1]))
    /\ pc' = "depot_call"
    /\ UNCHANGED <<archiveVars, envVars, error, namesVars, tagVars, urls, response, script, newVars>>

\* The body of the loop after the last call; return images.
DepotReturn ==
    /\ pc = "depot_returned"
    /\ urlIndex = Len(urls)
    /\ ~ FeedRaises(response)
    /\ simages' = DepotExtend(variant, simages, response)
    /\ singularity_images' = simages'
    /\ call' = NoCall
    /\ pc' = "depot_done"
    /\ UNCHANGED <<archiveVars, envVars, error, namesVars, tagVars, urls, urlIndex, response,
                   depotLog, script, quay_images, denylist, new_images, npc>>

\* The body of the loop after the call, on a body the parser fails on.
DepotFeedRaises ==
    /\ pc = "depot_returned"
    /\ FeedRaises(response)
    /\ error' = "TypeError"
    /\ pc' = "raised"
    /\ UNCHANGED <<archiveVars, envVars, call, namesVars, tagVars, depotVars, script, newVars>>

-----------------------------------------------------------------------------
(* generate_build_script *)

\* img_template.substitute(img=img, idx=idx, total=len(images))
Rendering(img, idx, total) == [img |-> img, idx |-> idx, total |-> total]

\* The build script before the run: what an earlier run left in it.
InitialScript == <<Rendering("old:0", 1, 1)>>

\* A loop that counts from enumerate's default start.
GenerateFromZero(v, file, list) ==
    LET written == [k \in 1..Len(list) |-> Rendering(list[k], k - 1, Len(list))]
    IN  IF v = "populate_build" THEN file \o written ELSE written

\* for idx, img in enumerate(images, start=1): handle.write(...);
\* populate_build.py opens the file with "a", get_container_list.py with "w".
generate_build_script(v, file, list) ==
    LET written == [k \in 1..Len(list) |-> Rendering(list[k], k, Len(list))]
    IN  IF v = "populate_build" THEN file \o written ELSE written

-----------------------------------------------------------------------------
(* main and QuayImageFetcher.fetch_all *)

\* quay_images = asyncio.run(QuayImageFetcher.fetch_all(...)): fetch_all
\* opens the client and calls _fetch_names.
MainFetchQuay ==
    /\ pc = "main_start"
    /\ pc' = "names_start"
    /\ UNCHANGED <<archiveVars, envVars, error, call, namesVars, tagVars, depotVars, script, newVars>>

\* names = await cls._fetch_names(...); images = await cls._fetch_tags(...)
FetchAllCallTags ==
    /\ pc = "names_returned"
    /\ pc' = "tags_start"
    /\ call' = NoCall
    /\ params' = NoParams
    /\ repos' = NoPage
    /\ requestLog' = <<>>
    /\ UNCHANGED <<archiveVars, envVars, error, names, tagVars, depotVars, script, newVars>>

\* fetch_all returns images; main goes on to the depot.
FetchAllReturn ==
    /\ pc = "tags_returned"
    /\ quay_images' = images
    /\ names' = <<>>
    /\ tasks' = <<>>
    /\ spawned' = 0
    /\ images' = <<>>
    /\ startedInSecond' = 0
    /\ sentInSecond' = 0
    /\ pc' = "depot_start"
    /\ UNCHANGED <<archiveVars, envVars, error, call, params, repos, requestLog, channel, depotVars,
                   script, singularity_images, denylist, new_images, npc>>

\* The deny-lists of a whole run: those above, and one that denies the
\* first repository.
MainDenyLists == DenyLists \cup {<<"alpha">>}

\* denylist = parse_denylist(args.denylist);
\* images = get_new_images(quay_images, singularity_images, denylist)
MainGetNewImages ==
    /\ pc = "depot_done"
    /\ denylist' \in MainDenyLists
    /\ new_images' = get_new_images(variant, quay_images, singularity_images, denylist')
    /\ pc' = "new_images"
    /\ UNCHANGED <<archiveVars, envVars, error, call, namesVars, tagVars, depotVars, script,
                   quay_images, singularity_images, npc>>

\* A branch that opens the build script for writing before it returns.
MainNoNewImagesTruncates ==
    /\ pc = "new_images"
    /\ new_images = <<>>
    /\ script' = <<>>
    /\ pc' = "no_new_images"
    /\ UNCHANGED <<archiveVars, envVars, error, call, namesVars, tagVars, depotVars, newVars>>

\* if not images: logger.warning("No new images found."); return
MainNoNewImages ==
    /\ pc = "new_images"
    /\ new_images = <<>>
    /\ pc' = "no_new_images"
    /\ UNCHANGED <<archiveVars, envVars, error, call, namesVars, tagVars, depotVars, script, newVars>>

\* generate_build_script(args.build_script, images, ...)
MainGenerate ==
    /\ pc = "new_images"
    /\ new_images # <<>>
    /\ script' = generate_build_script(variant, script, new_images)
    /\ pc' = "generated"
    /\ UNCHANGED <<archiveVars, envVars, error, call, namesVars, tagVars, depotVars, newVars>>

-----------------------------------------------------------------------------
(* remove-old-builds.py *)

\* str.rfind, counted from 1: the place of the last occurrence of sep in s,
\* 0 if there is none.
rfind(s, sep) ==
    LET at == {i \in 1..(Len(s) - Len(sep) + 1) : SubSeq(s, i, i + Len(sep) - 1) = sep}
    IN  IF at = {} THEN 0 ELSE CHOOSE i \in at : \A j \in at : j <= i

\* s.rsplit(sep, 1), for s that contains sep: what is before the last
\* occurrence of sep and what is behind it.
rsplit(s, sep) ==
    LET i == rfind(s, sep)
    IN  <<SubSeq(s, 1, i - 1), SubSeq(s, i + Len(sep), Len(s))>>

Digits == "0123456789"

isdigit(c) == \E i \in 1..Len(Digits) : SubSeq(Digits, i, i) = c

\* The value of a string of decimal digits, leading zeros included.
RECURSIVE Decimal(_)
Decimal(s) ==
    IF Len(s) = 0 THEN 0
    ELSE 10 * Decimal(SubSeq(s, 1, Len(s) - 1))
            + (CHOOSE i \in 1..Len(Digits) : SubSeq(Digits, i, i) = SubSeq(s, Len(s), Len(s))) - 1

\* What int() reads behind an optional sign.
Unsigned(s) == IF startswith(s, "-") THEN SubSeq(s, 2, Len(s)) ELSE s

\* int(s) raises ValueError: s is not an optional "-" and one digit or more.
\* (The strings of the model hold no "+", blank or non-ASCII digit; an "_"
\* cannot be in a build number, which is what follows the last "_".)
IntRaises(s) ==
    \/ Len(Unsigned(s)) = 0
    \/ \E i \in 1..Len(Unsigned(s)) : ~ isdigit(SubSeq(Unsigned(s), i, i))

\* int(s), for s that int() accepts
int(s) == IF startswith(s, "-") THEN 0 - Decimal(Unsigned(s)) ELSE Decimal(s)

\* image_dict[image_name] on the defaultdict(list): a missing key enters the
\* dict, last, with an empty list.
Touch(dict, image_name) ==
    IF \E i \in 1..Len(dict) : dict[i].k = image_name THEN dict
    ELSE Append(dict, [k |-> image_name, v |-> <<>>])

\* image_dict[image_name].append(build)
AppendBuild(dict, image_name, build) ==
    [i \in 1..Len(dict) |->
        IF dict[i].k = image_name THEN [dict[i] EXCEPT !.v = Append(@, build)]
        ELSE dict[i]]

\* The body of the loop over os.listdir: image_dict after one file name.
\* image_dict[image_name].append is looked up before int() is called, so a
\* build number int() refuses leaves the key in the dict.
ParseImage(dict, image) ==
    IF ~ Contains(image, "--") THEN dict
    ELSE LET image_name == rsplit(image, "--")[1]
             image_build_string == rsplit(image, "--")[2]
         IN  IF ~ Contains(image_build_string, "_") THEN dict
             ELSE LET build_string == rsplit(image_build_string, "_")[1]
                      build_number == rsplit(image_build_string, "_")[2]
                  IN  IF IntRaises(build_number) THEN Touch(dict, image_name)
                      ELSE AppendBuild(Touch(dict, image_name), image_name,
                                       [build_string |-> build_string,
                                        build_number |-> int(build_number)])

\* key=lambda x: (x[1], x[0]) and Python's < on the key tuples
KeyLess(x, y) ==
    \/ x.build_number < y.build_number
    \/ x.build_number = y.build_number /\ StrLess(x.build_string, y.build_string)

RECURSIVE InsertBuild(_, _)
InsertBuild(x, list) ==
    IF list = <<>> THEN <<x>>
    ELSE IF KeyLess(x, Head(list)) THEN <<x>> \o list
    ELSE <<Head(list)>> \o InsertBuild(x, Tail(list))

\* v.sort(key=lambda x: (x[1], x[0])): ascending, stable.
RECURSIVE sort(_)
sort(v) ==
    IF v = <<>> THEN <<>>
    ELSE InsertBuild(v[Len(v)], sort(SubSeq(v, 1, Len(v) - 1)))

\* v.pop(), for v that is not empty: v without its last element.
pop(v) == SubSeq(v, 1, Len(v) - 1)

\* f'{k}--{build_string}_{build_number}'
Name(k, build) == k \o "--" \o build.build_string \o "_" \o ToString(build.build_number)

\* f'image "{name}" does not exist'
ExitMessage(name) == "image \"" \o name \o "\" does not exist"

\* The file names a directory can hold: builds of one image with the number
\* written plainly, with a leading zero and in two digits, builds of another
\* image, and names the parsing loop passes over.
FileUniverse ==
    {"a--b_1", "a--b_01", "a--c_1", "a--b_2", "a--b_10", "z--b_0",
     "a--b_x", "a--b1", "a-b_1"}

\* Most files in the directory.
MaxFiles == 3

\* os.listdir(sys.argv[1]): distinct names, in arbitrary order.
Listings ==
    UNION {Orders(S) : S \in {T \in SUBSET FileUniverse : Cardinality(T) <= MaxFiles}}

\* The files of the working directory when it is not sys.argv[1].
OtherDirectories == SUBSET {"a--b_1", "a--c_1"}

\* remove-old-builds.py is not running.
ArchiveIdle ==
    /\ listdir = <<>>
    /\ exists = {}
    /\ imageIndex = 0
    /\ image_dict = <<>>
    /\ keyIndex = 0
    /\ buildIndex = 0
    /\ image_to_archive = <<>>
    /\ exit_status = None
    /\ apc = "idle"

-----------------------------------------------------------------------------
(* The fetchers on their own *)

\* Nothing of the pipeline is running.
PipelineIdle ==
    /\ pages = <<>>
    /\ pc = "idle"
    /\ error = None
    /\ call = NoCall
    /\ params = NoParams
    /\ repos = NoPage
    /\ names = <<>>
    /\ requestLog = <<>>
    /\ TagsIdle
    /\ DepotIdle
    /\ script = InitialScript

\* _fetch_names called on a drawn listing.
InitNames ==
    /\ ArchiveIdle
    /\ variant \in Variants
    /\ pages \in PageChains
    /\ pc = "names_start"
    /\ error = None
    /\ call = NoCall
    /\ params = NoParams
    /\ repos = NoPage
    /\ names = <<>>
    /\ requestLog = <<>>
    /\ TagsIdle
    /\ DepotIdle
    /\ script = InitialScript
    /\ quay_images = NoList
    /\ singularity_images = NoList
    /\ denylist = <<>>
    /\ new_images = NoList
    /\ npc = "idle"

NextNames ==
    \/ FetchNamesFirst
    \/ PageAttemptEnds
    \/ PageRetry
    \/ NamesNextPage
    \/ NamesReturn

SpecNames == InitNames /\ [][NextNames]_vars

\* The lists of names _fetch_names can return: the listed repositories.
NameLists ==
    {SubSeq(RepoList, 1, n) :
        n \in 0..(IF MaxRepos < Len(RepoList) THEN MaxRepos ELSE Len(RepoList))}

\* _fetch_tags called on a drawn list of names.
InitTags ==
    /\ ArchiveIdle
    /\ variant \in Variants
    /\ pages = <<>>
    /\ pc = "tags_start"
    /\ error = None
    /\ call = NoCall
    /\ params = NoParams
    /\ repos = NoPage
    /\ names \in NameLists
    /\ requestLog = <<>>
    /\ TagsIdle
    /\ DepotIdle
    /\ script = InitialScript
    /\ quay_images = NoList
    /\ singularity_images = NoList
    /\ denylist = <<>>
    /\ new_images = NoList
    /\ npc = "idle"

NextTags ==
    \/ FetchTagsStart
    \/ SpawnTask
    \/ \E i \in 1..Len(tasks) : TagAttemptEnds(i)
    \/ \E i \in 1..Len(tasks) : TagRetry(i)
    \/ ReceiveResult
    \/ FetchTagsReturn
    \/ Tick

SpecTags == InitTags /\ [][NextTags]_vars

\* The start tags a listing is drawn from: hrefs in either encoding, with a
\* second separator, without a separator, without a value; a separator in
\* another attribute of an <a>; an href of another element.
TagUniverse ==
    { Anchor("samtools%3A1.9"), Anchor("samtools:1.9"), Anchor("../"),
      Anchor("a%3A1%3A2"), Anchor(None),
      [tag |-> "a", attrs |-> << <<"title", "x:1">>, <<"href", "b%3A2">> >>],
      [tag |-> "link", attrs |-> << <<"href", "c%3A3">> >>] }

\* Most start tags of a drawn listing.
MaxTags == 2

Documents == SeqsUpTo(TagUniverse, MaxTags)

\* The body of fetch_all's loop on a drawn response of the only URL.
InitParser ==
    /\ ArchiveIdle
    /\ variant \in Variants
    /\ pages = <<>>
    /\ pc = "depot_returned"
    /\ error = None
    /\ call = [NewCall EXCEPT !.st = "returned"]
    /\ params = NoParams
    /\ repos = NoPage
    /\ names = <<>>
    /\ requestLog = <<>>
    /\ TagsIdle
    /\ urls = <<"depot/a">>
    /\ urlIndex = 1
    /\ response \in {ReturnedText(body) : body \in Documents}
    /\ simages = <<>>
    /\ depotLog = DepotAnswered(<<DepotRequest("depot/a")>>, "ok")
    /\ script = InitialScript
    /\ quay_images = <<>>
    /\ singularity_images = NoList
    /\ denylist = <<>>
    /\ new_images = NoList
    /\ npc = "idle"

NextParser ==
    \/ DepotReturn
    \/ DepotFeedRaises

SpecParser == InitParser /\ [][NextParser]_vars

-----------------------------------------------------------------------------
(* The whole run *)

\* Most repositories of the registry in a whole run.
MainRepos == 3

\* The listings of a whole run: the first n repositories, one to a page.
MainChains ==
    {PageChain(n, IF n = 0 THEN 1 ELSE n, [i \in 1..(n - 1) |-> i]) :
        n \in 0..(IF MainRepos < Len(RepoList) THEN MainRepos ELSE Len(RepoList))}

Init ==
    /\ ArchiveIdle
    /\ variant \in Variants
    /\ pages \in MainChains
    /\ pc = "main_start"
    /\ error = None
    /\ call = NoCall
    /\ params = NoParams
    /\ repos = NoPage
    /\ names = <<>>
    /\ requestLog = <<>>
    /\ TagsIdle
    /\ DepotIdle
    /\ script = InitialScript
    /\ quay_images = NoList
    /\ singularity_images = NoList
    /\ denylist = <<>>
    /\ new_images = NoList
    /\ npc = "idle"

Next ==
    \/ MainFetchQuay
    \/ FetchNamesFirst
    \/ PageAttemptEnds
    \/ PageRetry
    \/ NamesNextPage
    \/ NamesReturn
    \/ FetchAllCallTags
    \/ FetchTagsStart
    \/ SpawnTask
    \/ \E i \in 1..Len(tasks) : TagAttemptEnds(i)
    \/ \E i \in 1..Len(tasks) : TagRetry(i)
    \/ ReceiveResult
    \/ FetchTagsReturn
    \/ Tick
    \/ FetchAllReturn
    \/ DepotStart
    \/ DepotAttemptEnds
    \/ DepotRetry
    \/ DepotNextUrl
    \/ DepotReturn
    \/ MainGetNewImages
    \/ MainNoNewImages
    \/ MainGenerate

Spec == Init /\ [][Next]_vars

\* QuayImageFetcher.fetch_all on its own, against listings that end and
\* listings that do not. Every request is answered or times out
\* (httpx.Timeout(12)), every backoff wait is finite, and the event loop runs
\* whatever is ready: a step that can be taken is taken.
LoopChains == {LoopChain(chain) : chain \in MainChains}

InitRegistry ==
    /\ ArchiveIdle
    /\ variant \in Variants
    /\ pages \in MainChains \cup LoopChains
    /\ pc = "main_start"
    /\ error = None
    /\ call = NoCall
    /\ params = NoParams
    /\ repos = NoPage
    /\ names = <<>>
    /\ requestLog = <<>>
    /\ TagsIdle
    /\ DepotIdle
    /\ script = InitialScript
    /\ quay_images = NoList
    /\ singularity_images = NoList
    /\ denylist = <<>>
    /\ new_images = NoList
    /\ npc = "idle"

NextRegistry ==
    \/ MainFetchQuay
    \/ FetchNamesFirst
    \/ PageAttemptEnds
    \/ PageRetry
    \/ NamesNextPage
    \/ NamesReturn
    \/ FetchAllCallTags
    \/ FetchTagsStart
    \/ SpawnTask
    \/ \E i \in 1..Len(tasks) : TagAttemptEnds(i)
    \/ \E i \in 1..Len(tasks) : TagRetry(i)
    \/ ReceiveResult
    \/ FetchTagsReturn
    \/ Tick
    \/ FetchAllReturn

SpecRegistry == InitRegistry /\ [][NextRegistry]_vars /\ WF_vars(NextRegistry)

-----------------------------------------------------------------------------
(* The reconciler on its own: get_new_images applied to drawn inputs. *)

\* Longest registry inventory drawn.
MaxQuay == 4

InitNew ==
    /\ ArchiveIdle
    /\ variant \in Variants
    /\ quay_images \in SeqsUpTo(ImageUniverse, MaxQuay)
    /\ singularity_images \in {Iterate(S) : S \in SUBSET DepotUniverse}
    /\ denylist \in DenyLists
    /\ new_images = NoList
    /\ npc = "call"
    /\ PipelineIdle

CallGetNewImages ==
    /\ npc = "call"
    /\ new_images' = get_new_images(variant, quay_images, singularity_images, denylist)
    /\ npc' = "returned"
    /\ UNCHANGED <<quay_images, singularity_images, denylist>>
    /\ UNCHANGED <<archiveVars, envVars, pc, error, call, namesVars, tagVars, depotVars, script>>

NextNew == CallGetNewImages

SpecNew == InitNew /\ [][NextNew]_vars

\* get_new_images called twice on the same drawn inputs, the set difference
\* iterated in any order at each call.

\* Longest registry inventory drawn for the two calls.
MaxAgain == 3

InitAgain ==
    /\ ArchiveIdle
    /\ variant \in Variants
    /\ quay_images \in SeqsUpTo(ImageUniverse, MaxAgain)
    /\ singularity_images \in {Iterate(S) : S \in SUBSET DepotUniverse}
    /\ denylist \in DenyLists
    /\ new_images = NoList
    /\ npc = "call"
    /\ PipelineIdle

\* get_new_images with the set difference iterated in the given order.
GetNewImagesIterating(v, iteration, deny) ==
    IF v = "populate_build" THEN GroupedOf(iteration, deny) ELSE SortedOf(iteration, deny)

CallIterating ==
    /\ npc = "call"
    /\ \E iteration \in Orders(frozenset(quay_images) \ frozenset(singularity_images)) :
          new_images' = GetNewImagesIterating(variant, iteration, denylist)
    /\ npc' = "returned"
    /\ UNCHANGED <<quay_images, singularity_images, denylist>>
    /\ UNCHANGED <<archiveVars, envVars, pc, error, call, namesVars, tagVars, depotVars, script>>

CallAgain ==
    /\ npc = "returned"
    /\ \E iteration \in Orders(frozenset(quay_images) \ frozenset(singularity_images)) :
          new_images' = GetNewImagesIterating(variant, iteration, denylist)
    /\ npc' = "again"
    /\ UNCHANGED <<quay_images, singularity_images, denylist>>
    /\ UNCHANGED <<archiveVars, envVars, pc, error, call, namesVars, tagVars, depotVars, script>>

NextAgain ==
    \/ CallIterating
    \/ CallAgain

SpecAgain == InitAgain /\ [][NextAgain]_vars

\* get_new_images called on drawn inputs, then on the same inputs with the
\* elements of one of them permuted or written twice.

\* Longest registry inventory drawn for the rearranged calls.
MaxSets == 2

\* The lists with the elements of `list`, in any order, one of them written
\* twice or none.
Rearranged(list) ==
    {l \in SeqsUpTo(frozenset(list), Cardinality(frozenset(list)) + 1) :
        frozenset(l) = frozenset(list)}

InitSets ==
    /\ ArchiveIdle
    /\ variant \in Variants
    /\ quay_images \in SeqsUpTo(ImageUniverse, MaxSets)
    /\ singularity_images \in {Iterate(S) : S \in SUBSET DepotUniverse}
    /\ denylist \in DenyLists
    /\ new_images = NoList
    /\ npc = "call"
    /\ PipelineIdle

\* The call on the inputs as they are, the set difference iterated in any
\* order.
GetNewImagesAnyOrder ==
    \E iteration \in Orders(frozenset(quay_images') \ frozenset(singularity_images')) :
        new_images' = GetNewImagesIterating(variant, iteration, denylist')

CallQuayRearranged ==
    /\ npc = "returned"
    /\ quay_images' \in Rearranged(quay_images)
    /\ UNCHANGED <<singularity_images, denylist>>
    /\ GetNewImagesAnyOrder
    /\ npc' = "rearranged"
    /\ UNCHANGED <<archiveVars, envVars, pc, error, call, namesVars, tagVars, depotVars, script>>

CallDepotRearranged ==
    /\ npc = "returned"
    /\ singularity_images' \in Rearranged(singularity_images)
    /\ UNCHANGED <<quay_images, denylist>>
    /\ GetNewImagesAnyOrder
    /\ npc' = "rearranged"
    /\ UNCHANGED <<archiveVars, envVars, pc, error, call, namesVars, tagVars, depotVars, script>>

CallDenyRearranged ==
    /\ npc = "returned"
    /\ denylist' \in Rearranged(denylist)
    /\ UNCHANGED <<quay_images, singularity_images>>
    /\ GetNewImagesAnyOrder
    /\ npc' = "rearranged"
    /\ UNCHANGED <<archiveVars, envVars, pc, error, call, namesVars, tagVars, depotVars, script>>

NextSets ==
    \/ CallIterating
    \/ CallQuayRearranged
    \/ CallDepotRearranged
    \/ CallDenyRearranged

SpecSets == InitSets /\ [][NextSets]_vars

\* remove-old-builds.py run on a drawn directory, from the directory itself
\* or from another one.
InitArchive ==
    /\ variant = None
    /\ PipelineIdle
    /\ quay_images = NoList
    /\ singularity_images = NoList
    /\ denylist = <<>>
    /\ new_images = NoList
    /\ npc = "idle"
    /\ listdir \in Listings
    /\ exists \in {frozenset(listdir)} \cup OtherDirectories
    /\ imageIndex = 1
    /\ image_dict = <<>>
    /\ keyIndex = 0
    /\ buildIndex = 0
    /\ image_to_archive = <<>>
    /\ exit_status = None
    /\ apc = "parse"

\* for image in os.listdir(sys.argv[1]): one pass of the body
ListImage ==
    /\ apc = "parse"
    /\ imageIndex <= Len(listdir)
    /\ image_dict' = ParseImage(image_dict, listdir[imageIndex])
    /\ imageIndex' = imageIndex + 1
    /\ UNCHANGED <<listdir, exists, keyIndex, buildIndex, image_to_archive, exit_status, apc>>
    /\ UNCHANGED <<envVars, pc, error, call, namesVars, tagVars, depotVars, script, newVars>>

\* The listing is exhausted; for k, v in image_dict.items() begins.
ListEnd ==
    /\ apc = "parse"
    /\ imageIndex > Len(listdir)
    /\ keyIndex' = 1
    /\ apc' = "archive"
    /\ UNCHANGED <<listdir, exists, imageIndex, image_dict, buildIndex, image_to_archive, exit_status>>
    /\ UNCHANGED <<envVars, pc, error, call, namesVars, tagVars, depotVars, script, newVars>>

\* if not v: continue; v.sort(...); v.pop(); for ... in v begins
SortAndPop ==
    /\ apc = "archive"
    /\ keyIndex <= Len(image_dict)
    /\ IF image_dict[keyIndex].v = <<>>
       THEN /\ keyIndex' = keyIndex + 1
            /\ UNCHANGED <<image_dict, buildIndex, apc>>
       ELSE /\ image_dict' = [image_dict EXCEPT ![keyIndex].v = pop(sort(@))]
            /\ buildIndex' = 1
            /\ apc' = "builds"
            /\ UNCHANGED keyIndex
    /\ UNCHANGED <<listdir, exists, imageIndex, image_to_archive, exit_status>>
    /\ UNCHANGED <<envVars, pc, error, call, namesVars, tagVars, depotVars, script, newVars>>

\* for build_string, build_number in v: one pass of the body
ArchiveBuild ==
    /\ apc = "builds"
    /\ buildIndex <= Len(image_dict[keyIndex].v)
    /\ LET name == Name(image_dict[keyIndex].k, image_dict[keyIndex].v[buildIndex])
       IN  IF name \in exists
           THEN /\ image_to_archive' = Append(image_to_archive, name)
                /\ buildIndex' = buildIndex + 1
                /\ UNCHANGED <<exit_status, apc>>
           ELSE /\ exit_status' = ExitMessage(name)
                /\ apc' = "exit"
                /\ UNCHANGED <<image_to_archive, buildIndex>>
    /\ UNCHANGED <<listdir, exists, imageIndex, image_dict, keyIndex>>
    /\ UNCHANGED <<envVars, pc, error, call, namesVars, tagVars, depotVars, script, newVars>>

\* v is exhausted: the next key.
BuildsEnd ==
    /\ apc = "builds"
    /\ buildIndex > Len(image_dict[keyIndex].v)
    /\ keyIndex' = keyIndex + 1
    /\ buildIndex' = 0
    /\ apc' = "archive"
    /\ UNCHANGED <<listdir, exists, imageIndex, image_dict, image_to_archive, exit_status>>
    /\ UNCHANGED <<envVars, pc, error, call, namesVars, tagVars, depotVars, script, newVars>>

\* image_dict is exhausted: the script ends.
ScriptEnd ==
    /\ apc = "archive"
    /\ keyIndex > Len(image_dict)
    /\ apc' = "done"
    /\ UNCHANGED <<listdir, exists, imageIndex, image_dict, keyIndex, buildIndex, image_to_archive, exit_status>>
    /\ UNCHANGED <<envVars, pc, error, call, namesVars, tagVars, depotVars, script, newVars>>

NextArchive ==
    \/ ListImage
    \/ ListEnd
    \/ SortAndPop
    \/ ArchiveBuild
    \/ BuildsEnd
    \/ ScriptEnd

SpecArchive == InitArchive /\ [][NextArchive]_vars

-----------------------------------------------------------------------------
(* Properties of get_new_images, stated without the operators above. *)

Returned == npc = "returned"

InDepot(img) == \E i \in 1..Len(singularity_images) : singularity_images[i] = img

\* Some deny-list entry equals an initial segment of img.
DenyPrefixOf(img) ==
    \E j \in 1..Len(denylist) : \E k \in 0..Len(img) :
        SubSeq(img, 1, k) = denylist[j]

\* The registry references that are neither in the depot nor deny-listed.
Surviving ==
    {quay_images[i] : i \in {n \in 1..Len(quay_images) :
        ~ InDepot(quay_images[n]) /\ ~ DenyPrefixOf(quay_images[n])}}

Ascending(list) ==
    \A i \in 1..Len(list) : \A j \in 1..Len(list) :
        i < j => StrLess(list[i], list[j])

InTrailingGroup(img) == Len(img) >= 12 /\ SubSeq(img, 1, 12) = "bioconductor"

\* Leading group first, then the trailing group, each ascending.
GroupedOrder(list) ==
    \E k \in 0..Len(list) :
        /\ \A i \in 1..k : ~ InTrailingGroup(list[i])
        /\ \A i \in (k + 1)..Len(list) : InTrailingGroup(list[i])
        /\ Ascending(SubSeq(list, 1, k))
        /\ Ascending(SubSeq(list, k + 1, Len(list)))

\* C1: the list returned by get_new_images holds no element of the depot
\* inventory and no element that starts with a deny-list entry.
C1_NoDepotNoDenied ==
    Returned =>
        \A i \in 1..Len(new_images) :
            ~ InDepot(new_images[i]) /\ ~ DenyPrefixOf(new_images[i])

\* A call where one registry image is in the depot, another is deny-listed
\* and a third is returned.
C1_Witness ==
    /\ Returned
    /\ \E i \in 1..Len(quay_images) : InDepot(quay_images[i])
    /\ \E i \in 1..Len(quay_images) :
          ~ InDepot(quay_images[i]) /\ DenyPrefixOf(quay_images[i])
    /\ Len(new_images) > 0

\* C2: get_new_images returns every registry image that is not in the depot
\* and has no deny-list entry as a prefix, each exactly once; with the
\* deny-list ["foo"], "foo:1" and "foobar:2" are excluded and "barfoo:1"
\* is kept.
C2_ExactlyTheSurvivors ==
    Returned =>
        /\ frozenset(new_images) = Surviving
        /\ Len(new_images) = Cardinality(Surviving)
        /\ denylist = <<"foo">> =>
              /\ "foo:1" \notin frozenset(new_images)
              /\ "foobar:2" \notin frozenset(new_images)
              /\ ("barfoo:1" \in frozenset(quay_images) =>
                    "barfoo:1" \in frozenset(new_images))

\* The deny-list ["foo"] against "foo:1", "foobar:2" and a doubled
\* "barfoo:1".
C2_Witness ==
    /\ Returned
    /\ denylist = <<"foo">>
    /\ quay_images = <<"foo:1", "barfoo:1", "foobar:2", "barfoo:1">>
    /\ singularity_images = <<>>
    /\ new_images = <<"barfoo:1">>

-----------------------------------------------------------------------------
(* Properties of the repository listing *)

RECURSIVE Flatten(_)
Flatten(chain) ==
    IF chain = <<>> THEN <<>>
    ELSE Head(chain).repositories \o Flatten(Tail(chain))

\* The cursors of the requests that were answered with a page.
AnsweredCursors ==
    LET ok == SelectSeq(requestLog, LAMBDA r : r.result = "ok")
    IN  [i \in 1..Len(ok) |-> ok[i].next_page]

\* The cursor each page of the chain is reached by: none, then c1, c2, ...
ChainCursors == [i \in 1..Len(pages) |-> IF i = 1 THEN None ELSE pages[i - 1].next_page]

\* C4: the listing keeps requesting pages, each follow-up request carrying
\* the cursor of the previous response, until a response has no cursor; a
\* chain of n pages without failing requests causes exactly n requests, and
\* the returned list is the concatenation of the pages' names in page order.
C4_Pagination ==
    /\ \A i \in 2..Len(requestLog) :
          LET prev == requestLog[i - 1] IN
          /\ prev.result # "pending"
          /\ prev.result = "failed" => requestLog[i].next_page = prev.next_page
          /\ prev.result = "ok" =>
                /\ ServePage(prev.next_page).next_page # None
                /\ requestLog[i].next_page = ServePage(prev.next_page).next_page
    /\ Len(requestLog) > 0 => requestLog[1].next_page = None
    /\ pc = "names_returned" =>
          /\ names = Flatten(pages)
          /\ AnsweredCursors = ChainCursors
          /\ (\A i \in 1..Len(requestLog) : requestLog[i].result = "ok")
                => Len(requestLog) = Len(pages)

\* Three pages with cursors c1, c2, none, fetched with three requests.
C4_Witness ==
    /\ pc = "names_returned"
    /\ Len(pages) = 3
    /\ pages[1].next_page = "c1" /\ pages[2].next_page = "c2"
    /\ pages[3].next_page = None
    /\ Len(requestLog) = 3
    /\ \A i \in 1..3 : Len(pages[i].repositories) = 1
    /\ names = SubSeq(RepoList, 1, 3)

-----------------------------------------------------------------------------
(* Properties of the tag fan-out *)

Sending(i) == tasks[i].st = "sending"

\* C7: at every moment of the fan-out at most max_concurrency tag requests
\* are in flight, also while some of them are retry attempts.
C7_AtMostMaxConcurrency ==
    Cardinality({i \in 1..Len(tasks) : Sending(i)}) <= max_concurrency

\* max_concurrency requests in flight, one of them a retry attempt, while a
\* further request waits for a slot.
C7_Witness ==
    /\ pc = "tags"
    /\ Cardinality({i \in 1..Len(tasks) : Sending(i)}) = max_concurrency
    /\ \E i \in 1..Len(tasks) : Sending(i) /\ tasks[i].attempt > 1
    /\ spawned < Len(names)

\* C8: within one second no more than max_per_second requests (first
\* attempts and retry attempts) are sent to the single-repository endpoint.
C8_AtMostMaxPerSecond ==
    sentInSecond <= max_per_second

\* The references of the tags of `name`, in the order of the response.
RefsOf(name) ==
    [k \in 1..Len(RepoTags[name]) |-> name \o ":" \o RepoTags[name][k]]

Occurrences(list, x) == Cardinality({k \in 1..Len(list) : list[k] = x})

\* The references of `name` stand in `list` as one block, once.
WholeBlock(list, name) ==
    /\ \E off \in 0..Len(list) :
          /\ off + Len(RefsOf(name)) <= Len(list)
          /\ SubSeq(list, off + 1, off + Len(RefsOf(name))) = RefsOf(name)
    /\ \A k \in 1..Len(RefsOf(name)) : Occurrences(list, RefsOf(name)[k]) = 1

\* No reference of `name` is in `list`.
NoBlock(list, name) ==
    \A k \in 1..Len(RefsOf(name)) : Occurrences(list, RefsOf(name)[k]) = 0

RECURSIVE SumTags(_)
SumTags(list) ==
    IF list = <<>> THEN 0 ELSE Len(RepoTags[Head(list)]) + SumTags(Tail(list))

\* C9: when the fan-out succeeds, whatever the order in which the requests
\* complete, the returned list holds exactly one name:tag for every tag of
\* every listed repository and nothing else; the tags of a repository are
\* appended as one block, never in part.
C9_OnePerRepositoryTag ==
    /\ pc = "tags" =>
          \A i \in 1..Len(names) :
              WholeBlock(images, names[i]) \/ NoBlock(images, names[i])
    /\ pc = "tags_returned" =>
          /\ \A i \in 1..Len(names) : WholeBlock(images, names[i])
          /\ Len(images) = SumTags(names)

\* A successful fan-out whose third request completed before its first.
C9_Witness ==
    /\ pc = "tags_returned"
    /\ names = <<"alpha", "zeta", "bioconductor-a">>
    /\ images = <<"bioconductor-a:2", "alpha:1", "alpha:2">>

-----------------------------------------------------------------------------
(* Properties of the retried calls and of the whole run *)

\* The retried calls that exist: the sequential one and the fan-out's tasks.
Calls == {call} \cup {tasks[i] : i \in 1..Len(tasks)}

HTTPErrors == {"HTTPStatusError", "ConnectError"}

\* C5: a call makes at most 5 attempts; with k < 5 failed attempts behind it
\* it has made k + 1 requests when it sends and when it returns; when the
\* fifth attempt fails the call has made exactly 5 requests and the run ends
\* with that attempt's exception.
C5_AtMostFiveAttempts ==
    \A c \in Calls :
        /\ c.sent <= 5
        /\ c.st = "sending" => c.failed < 5 /\ c.sent = c.failed + 1
        /\ c.st = "backoff" => c.failed < 5 /\ c.sent = c.failed
        /\ (c.st = "returned" /\ c.sent > 0) => c.failed < 5 /\ c.sent = c.failed + 1
        /\ (c.st = "raised" /\ c.exc \in HTTPErrors) =>
              /\ c.sent = 5
              /\ c.failed = 5
              /\ pc = "raised"
              /\ error = c.exc

\* The call for the depot's second URL fails at all five attempts.
C5_Witness ==
    /\ pc = "raised"
    /\ urlIndex = 2
    /\ call.st = "raised"
    /\ call.sent = 5
    /\ error = "ConnectError"

\* C6: only a failure of the transport or HTTP layer is retried; an attempt
\* that fails otherwise (a body that does not validate) is the call's last
\* attempt and its exception ends the run.
C6_OnlyHTTPErrorsRetried ==
    \A c \in Calls :
        /\ c.st = "backoff" => c.exc \in HTTPErrors
        /\ (c.st = "sending" /\ c.failed > 0) => c.exc \in HTTPErrors
        /\ (c.st = "raised" /\ c.exc \notin HTTPErrors) =>
              /\ c.exc = "ValidationError"
              /\ c.sent = c.attempt
              /\ pc = "raised"
              /\ error = "ValidationError"

\* A repository response that does not validate at the task's first attempt
\* ends the fan-out and cancels the other running task.
C6_Witness ==
    /\ pc = "raised"
    /\ error = "ValidationError"
    /\ \E i \in 1..Len(tasks) :
          tasks[i].st = "raised" /\ tasks[i].sent = 1 /\ tasks[i].failed = 1
    /\ \E i \in 1..Len(tasks) : tasks[i] = Cancelled

\* The inventory holds every tag of every listed repository, once.
CompleteRegistryInventory(list) ==
    /\ \A i \in 1..Len(pages) : \A k \in 1..Len(pages[i].repositories) :
          WholeBlock(list, pages[i].repositories[k])
    /\ Len(list) = SumTags(Flatten(pages))

\* C10: when a fetch fails for good the run ends with that error and the
\* inventory being fetched is never returned, so get_new_images never runs;
\* an inventory that is returned is complete; the tags of a repository are
\* in the accumulated list all together or not at all.
C10_NoPartialInventory ==
    /\ pc = "raised" =>
          /\ error # None
          /\ quay_images = NoList \/ singularity_images = NoList
          /\ new_images = NoList
          /\ ~ ENABLED Next
    /\ quay_images # NoList => CompleteRegistryInventory(quay_images)
    /\ new_images # NoList => quay_images # NoList /\ singularity_images # NoList
    /\ \A i \in 1..Len(names) :
          WholeBlock(images, names[i]) \/ NoBlock(images, names[i])

\* A tag fetch fails for good after another repository's tags had arrived.
C10_Witness ==
    /\ pc = "raised"
    /\ quay_images = NoList
    /\ \E i \in 1..Len(tasks) : tasks[i].st = "raised" /\ tasks[i].sent = 5
    /\ \E i \in 1..Len(tasks) : tasks[i] = Finished /\ RepoTags[names[i]] # <<>>

-----------------------------------------------------------------------------
(* Properties of the depot fetch *)

\* The references a finished call to _fetch_images adds to the inventory:
\* the links of the body it returned, nothing when it returned no body.
LinksOf(entry) ==
    IF entry.result = "ok" THEN ParserImages(variant, DepotBody[entry.url]) ELSE <<>>

\* The links of the logged calls, one call after the other.
RECURSIVE LinksOfAll(_)
LinksOfAll(log) ==
    IF log = <<>> THEN <<>> ELSE LinksOf(Head(log)) \o LinksOfAll(Tail(log))

\* C11: a depot URL that answers 404 is an empty page: the call returns at
\* that attempt, without error and without another attempt, the loop goes on
\* to the next URL, and the inventory returned is the links of the other
\* URLs.
C11_NotFoundIsEmpty ==
    /\ \A i \in 1..Len(depotLog) :
          (i = Len(depotLog) /\ depotLog[i].result = "status404") =>
              /\ call.st \notin {"backoff", "raised"}
              /\ error = None
              /\ (pc = "depot_returned" /\ urlIndex < Len(urls)) => ENABLED DepotNextUrl
    /\ pc = "depot_done" =>
          /\ singularity_images = LinksOfAll(depotLog)
          /\ Len(depotLog) = Len(urls)

-----------------------------------------------------------------------------
(* Properties of the link extractor *)

\* The first place where sub occurs in s, 0 if nowhere.
IndexOf(s, sub) ==
    LET at == {k \in 1..(Len(s) - Len(sub) + 1) : SubSeq(s, k, k + Len(sub) - 1) = sub}
    IN  IF at = {} THEN 0 ELSE CHOOSE k \in at : \A j \in at : k <= j

\* The reference an href value stands for under either encoding, as a list:
\* with "%3A", the value with the first "%3A" decoded; with ":", the value
\* itself; otherwise none.
Reference(value) ==
    IF value = None THEN <<>>
    ELSE IF IndexOf(value, "%3A") > 0
         THEN LET k == IndexOf(value, "%3A")
              IN  <<SubSeq(value, 1, k - 1) \o ":" \o SubSeq(value, k + 3, Len(value))>>
         ELSE IF IndexOf(value, ":") > 0 THEN <<value>> ELSE <<>>

RECURSIVE ReferencesOfAttrs(_)
ReferencesOfAttrs(attrs) ==
    IF attrs = <<>> THEN <<>>
    ELSE (IF Head(attrs)[1] = "href" THEN Reference(Head(attrs)[2]) ELSE <<>>)
            \o ReferencesOfAttrs(Tail(attrs))

\* The references of the <a> elements of a listing, in document order.
RECURSIVE References(_)
References(body) ==
    IF body = <<>> THEN <<>>
    ELSE (IF Head(body).tag = "a" THEN ReferencesOfAttrs(Head(body).attrs) ELSE <<>>)
            \o References(Tail(body))

\* C12: the extractor never fails and returns, in document order, the hrefs
\* of the <a> elements that hold the separator in either encoding: the first
\* "%3A" decoded, a value with ":" unchanged, nothing for an href without a
\* separator and nothing for other elements.
C12_BothEncodings ==
    /\ pc # "raised"
    /\ pc = "depot_done" => singularity_images = References(response.text)

-----------------------------------------------------------------------------
(* Properties of the end of the run *)

\* Every registry image is in the depot inventory or deny-listed.
NothingToBuild ==
    \A i \in 1..Len(quay_images) :
        InDepot(quay_images[i]) \/ DenyPrefixOf(quay_images[i])

\* C13: when every registry image is in the depot or deny-listed the list of
\* new images is empty and the run ends by reporting that there are none:
\* no error, the build script as it was, nothing left to run.
C13_NothingToBuild ==
    /\ (pc \in {"new_images", "no_new_images", "generated"} /\ NothingToBuild) =>
          /\ new_images = <<>>
          /\ pc # "generated"
          /\ error = None
          /\ script = InitialScript
    /\ (pc = "new_images" /\ new_images = <<>>) =>
          ENABLED MainNoNewImages /\ ~ ENABLED MainGenerate
    /\ pc = "no_new_images" =>
          /\ new_images = <<>>
          /\ error = None
          /\ script = InitialScript
          /\ ~ ENABLED Next

\* A run that ends without new images: one registry image is in the depot,
\* another is deny-listed.
C13_Witness ==
    /\ pc = "no_new_images"
    /\ \E i \in 1..Len(quay_images) : InDepot(quay_images[i])
    /\ \E i \in 1..Len(quay_images) :
          ~ InDepot(quay_images[i]) /\ DenyPrefixOf(quay_images[i])

\* C14: a fetch that fails for good ends the run before anything is
\* written: the run stops there, the build script is as it was and no list
\* of new images exists; a build script that was written comes from a run
\* without error in which both inventories were returned.
C14_NoOutputAfterFailure ==
    /\ error # None =>
          /\ pc = "raised"
          /\ script = InitialScript
          /\ new_images = NoList
          /\ ~ ENABLED Next
    /\ script # InitialScript =>
          /\ error = None
          /\ quay_images # NoList
          /\ singularity_images # NoList

\* The registry inventory was returned with images; the depot fetch then
\* fails for good on error statuses.
C14_Witness ==
    /\ pc = "raised"
    /\ error = "HTTPStatusError"
    /\ quay_images # NoList
    /\ quay_images # <<>>
    /\ call.st = "raised"
    /\ call.failed = 5
    /\ script = InitialScript

\* What generate_build_script wrote: the end of the build script, as long as
\* the list of new images.
Emitted == SubSeq(script, Len(script) - Len(new_images) + 1, Len(script))

\* C15: generate_build_script writes one rendering for each new image, in
\* the order of the list: the k-th rendering carries the k-th image, the
\* index k and the length of the list as total; it writes nothing else.
C15_OneRenderingPerImage ==
    pc = "generated" =>
        /\ Len(script) \in {Len(new_images), Len(InitialScript) + Len(new_images)}
        /\ Len(script) > Len(new_images) =>
              SubSeq(script, 1, Len(InitialScript)) = InitialScript
        /\ \A k \in 1..Len(new_images) :
              /\ Emitted[k].img = new_images[k]
              /\ Emitted[k].idx = k
              /\ Emitted[k].total = Len(new_images)

\* A build script generated for three new images.
C15_Witness ==
    /\ pc = "generated"
    /\ Len(new_images) = 3
    /\ Emitted[3] = [img |-> new_images[3], idx |-> 3, total |-> 3]

-----------------------------------------------------------------------------
(* Properties of repeated calls of get_new_images *)

\* C16: a second call of get_new_images on the same registry inventory,
\* depot inventory and deny-list returns the list the first call returned,
\* in whatever order either call iterates the set difference (the same
\* order at both calls included).
C16_SameListAgain ==
    [][npc = "returned" =>
          /\ quay_images' = quay_images
          /\ singularity_images' = singularity_images
          /\ denylist' = denylist
          /\ new_images' = new_images]_vars

\* A second call has returned a list of both groups, made from a difference
\* of three, one of them deny-listed.
C16_Witness ==
    /\ npc = "again"
    /\ Cardinality(frozenset(quay_images) \ frozenset(singularity_images)) = 3
    /\ Len(new_images) = 2
    /\ ~ InTrailingGroup(new_images[1])
    /\ InTrailingGroup(new_images[2])

-----------------------------------------------------------------------------
(* Properties of the order of requests *)

\* The listing requests that are with the server.
Outstanding == {i \in 1..Len(requestLog) : requestLog[i].result = "pending"}

\* At most the last request is outstanding, the request after a page's
\* response carries that response's cursor, every request carries the filter.
OnePageAtATime ==
    /\ Cardinality(Outstanding) <= 1
    /\ \A i \in Outstanding : i = Len(requestLog)
    /\ \A i \in 2..Len(requestLog) :
          requestLog[i - 1].result = "ok" =>
              /\ ServePage(requestLog[i - 1].next_page).next_page # None
              /\ requestLog[i].next_page =
                    ServePage(requestLog[i - 1].next_page).next_page
    /\ \A i \in 1..Len(requestLog) :
          /\ requestLog[i].public = "true"
          /\ requestLog[i].repo_kind = "image"
          /\ requestLog[i].namespace = "biocontainers"

\* C17: the pages are fetched one after the other: at most one listing
\* request is outstanding, a request is sent only once the one before it was
\* answered, the request after a page's response carries that response's
\* cursor, and every request carries public, repo_kind and namespace as
\* given.
C17_PagesInSequence ==
    /\ []OnePageAtATime
    /\ [][Len(requestLog') > Len(requestLog) => Outstanding = {}]_vars

\* The request for the third page is with the server: the two pages before
\* it were answered, the first at its second request.
C17_Witness ==
    /\ Len(requestLog) = 4
    /\ Outstanding = {4}
    /\ requestLog[1].result = "failed"
    /\ requestLog[2].result = "ok"
    /\ requestLog[3].result = "ok"
    /\ requestLog[4].next_page = "c2"

-----------------------------------------------------------------------------
(* Properties of the retry budget *)

\* The failed requests at the end of the log, back to the last answered one.
RECURSIVE FailedRun(_)
FailedRun(log) ==
    IF log = <<>> THEN 0
    ELSE LET last == log[Len(log)]
         IN  IF last.result = "ok" THEN 0
             ELSE (IF last.result = "failed" THEN 1 ELSE 0)
                      + FailedRun(SubSeq(log, 1, Len(log) - 1))

\* The failed requests of the whole listing.
FailedInAll(log) == Len(SelectSeq(log, LAMBDA r : r.result = "failed"))

\* A listing call counts its own failures only, and a transport or status
\* error ends the run only when one call has failed five times.
OwnBudget ==
    /\ (requestLog # <<>> /\ call.st \in {"sending", "backoff", "raised"}) =>
          call.failed = FailedRun(requestLog)
    /\ error \in HTTPErrors =>
          \E c \in Calls : c.st = "raised" /\ c.failed = 5 /\ c.attempt = 5

\* C18: the five attempts are counted for each call: every page call and
\* every repository call starts at its first attempt whatever failed before
\* it, so the run does not fail as long as no single call fails five times,
\* however many attempts fail in all.
C18_BudgetPerCall ==
    /\ []OwnBudget
    /\ [][ /\ (call' # call /\ call'.st = "sending" /\ call.st # "backoff") =>
                call'.attempt = 1 /\ call'.failed = 0
           /\ \A i \in 1..Len(tasks) :
                (Len(tasks') = Len(tasks) /\ tasks[i].st = "idle"
                    /\ tasks'[i].st = "sending") =>
                    tasks'[i].attempt = 1 /\ tasks'[i].failed = 0
         ]_vars

\* Two pages listed, each at its fifth request: eight failed requests in
\* all, and the listing has returned.
C18_Witness ==
    /\ pc = "names_returned"
    /\ Len(pages) = 2
    /\ FailedInAll(requestLog) = 8
    /\ error = None

-----------------------------------------------------------------------------
(* Properties of the order of the depot fetch *)

\* The depot calls whose request is with the server.
DepotOutstanding == {i \in 1..Len(depotLog) : depotLog[i].result = "pending"}

\* One call for each URL so far, in the order given; at most the last one is
\* outstanding; the list holds the links of the finished calls in that order.
DepotInSequence ==
    /\ Cardinality(DepotOutstanding) <= 1
    /\ \A i \in DepotOutstanding : i = Len(depotLog)
    /\ Len(depotLog) <= Len(urls)
    /\ \A i \in 1..Len(depotLog) : depotLog[i].url = urls[i]
    /\ pc \in {"depot_call", "depot_returned"} =>
          /\ Len(depotLog) = urlIndex
          /\ simages = LinksOfAll(SubSeq(depotLog, 1, urlIndex - 1))
    /\ pc = "depot_done" =>
          /\ Len(depotLog) = Len(urls)
          /\ singularity_images = LinksOfAll(depotLog)

\* C19: the depot URLs are fetched one at a time in the order given, with at
\* most one request outstanding; the list returned is the links of each
\* URL's body, URL after URL; a reference found under two URLs is in the
\* list twice and causes no error.
C19_DepotInSequence ==
    /\ []DepotInSequence
    /\ [][Len(depotLog') > Len(depotLog) => DepotOutstanding = {}]_vars

\* populate_build.py has fetched depot/a and then depot/b: "alpha:2" is
\* listed under both and is in the inventory twice.
C19_Witness ==
    /\ pc = "depot_done"
    /\ variant = "populate_build"
    /\ urls = <<"depot/a", "depot/b">>
    /\ singularity_images = <<"alpha:2", "bioconductor-a:2", "alpha:2">>
    /\ error = None

-----------------------------------------------------------------------------
(* Properties of the order of the phases *)

\* A repository request has been sent.
TagRequested == \E i \in 1..Len(tasks) : tasks[i].st # "idle"

\* C20: the phases follow one another: a repository request is sent only
\* once the listing has returned every name, a depot request only once the
\* registry inventory was returned, get_new_images runs only once both
\* inventories were returned; a registry fetch that fails for good leaves
\* the depot without a single request.
C20_PhasesInOrder ==
    /\ TagRequested =>
          /\ names = Flatten(pages)
          /\ Outstanding = {}
          /\ depotLog = <<>>
    /\ Outstanding # {} => ~ TagRequested /\ depotLog = <<>>
    /\ depotLog # <<>> =>
          /\ quay_images # NoList
          /\ CompleteRegistryInventory(quay_images)
          /\ ~ TagRequested
    /\ new_images # NoList =>
          /\ quay_images # NoList
          /\ singularity_images # NoList
          /\ DepotOutstanding = {}
    /\ (error # None /\ quay_images = NoList) => depotLog = <<>> /\ urls = <<>>

\* The listing returned two names; a repository call then failed for good:
\* no depot URL was requested.
C20_Witness ==
    /\ pc = "raised"
    /\ Len(names) = 2
    /\ \E i \in 1..Len(tasks) : tasks[i].st = "raised"
    /\ quay_images = NoList
    /\ depotLog = <<>>

-----------------------------------------------------------------------------
(* Properties of the end of the registry fetch *)

\* The listing's last page has no cursor.
ChainEnds == pages[Len(pages)].next_page = None

\* fetch_all has returned the complete inventory, or the run has ended with
\* the error of a call.
RegistryDone ==
    \/ pc = "raised" /\ error # None
    \/ /\ pc = "depot_start"
       /\ quay_images # NoList
       /\ CompleteRegistryInventory(quay_images)

\* C21: against a listing that ends, the registry fetch ends, with the
\* complete inventory or with the error of a call; no call makes more than
\* five attempts; the listing loop stops at the first page without a cursor
\* and at no other page, so against a listing whose every page carries a
\* cursor it never returns.
C21_RegistryFetchTerminates ==
    /\ ChainEnds ~> RegistryDone
    /\ [](\A c \in Calls : c.attempt <= 5)
    /\ [](~ ChainEnds =>
            pc \in {"main_start", "names_start", "page_call", "page_returned", "raised"})
    /\ [][pc = "page_returned" =>
            IF repos.next_page = None
            THEN pc' = "names_returned"
            ELSE pc' = "page_call" /\ call' = NewCall]_vars

\* A listing of three pages was fetched and fetch_all has returned the tags
\* of its repositories.
C21_Witness ==
    /\ pc = "depot_start"
    /\ Len(pages) = 3
    /\ ChainEnds
    /\ quay_images = <<"alpha:1", "alpha:2", "bioconductor-a:2">>

-----------------------------------------------------------------------------
(* Properties of get_new_images on rearranged inputs *)

\* The elements of a list, whatever their order and number.
ElementsOf(list) == {list[i] : i \in 1..Len(list)}

\* C22: get_new_images called again after the elements of the registry
\* inventory, of the depot inventory or of the deny-list were permuted or
\* written twice returns the list it returned before.
C22_OnlyTheSetsMatter ==
    [][(/\ npc = "returned"
        /\ ElementsOf(quay_images') = ElementsOf(quay_images)
        /\ ElementsOf(singularity_images') = ElementsOf(singularity_images)
        /\ ElementsOf(denylist') = ElementsOf(denylist))
          => new_images' = new_images]_vars

\* The call on a deny-list of two entries turned round and one written
\* twice, the second entry matching a registry image.
C22_Witness ==
    /\ npc = "rearranged"
    /\ denylist = <<"foo", "bioconductor-x", "foo">>
    /\ quay_images = <<"foo:1", "zeta:1">>
    /\ new_images = <<"zeta:1">>

-----------------------------------------------------------------------------
(* Properties of remove-old-builds.py *)

\* The file name has the form name--buildstring_number.
Parsed(image) ==
    /\ Contains(image, "--")
    /\ Contains(rsplit(image, "--")[2], "_")
    /\ ~ IntRaises(rsplit(rsplit(image, "--")[2], "_")[2])

\* The image name of a parsed file name.
NameOf(image) == rsplit(image, "--")[1]

\* The build of a parsed file name.
BuildOf(image) ==
    [build_string |-> rsplit(rsplit(image, "--")[2], "_")[1],
     build_number |-> int(rsplit(rsplit(image, "--")[2], "_")[2])]

ParsedFiles == {listdir[i] : i \in {j \in 1..Len(listdir) : Parsed(listdir[j])}}

\* The image names with at least one parsed build.
ImageNames == {NameOf(image) : image \in ParsedFiles}

\* The parsed builds of an image name.
BuildsOf(k) == {BuildOf(image) : image \in {f \in ParsedFiles : NameOf(f) = k}}

\* b is before g by build number, then build string.
Older(b, g) ==
    \/ b.build_number < g.build_number
    \/ b.build_number = g.build_number /\ StrLess(b.build_string, g.build_string)

\* The greatest parsed build of an image name.
Greatest(k) == CHOOSE g \in BuildsOf(k) : \A b \in BuildsOf(k) \ {g} : Older(b, g)

\* How many times a file name is listed for archiving.
Listed(name) == Len(SelectSeq(image_to_archive, LAMBDA n : n = name))

\* The script ran to its end with the greatest build of every image name
\* kept and every other build listed once.
GreatestKept ==
    apc = "done" =>
        \A k \in ImageNames :
            /\ Listed(Name(k, Greatest(k))) = 0
            /\ \A b \in BuildsOf(k) \ {Greatest(k)} : Listed(Name(k, b)) = 1

\* Only names that exist are listed.
ListedExist == \A i \in 1..Len(image_to_archive) : image_to_archive[i] \in exists

\* C23: for every image name with at least one parsed build, the build that
\* is greatest by (build number, build string) is never listed for archiving
\* and every other parsed build of the name is listed exactly once, provided
\* the reconstructed names exist; the first reconstructed name that does not
\* exist ends the script with an error.
C23_KeepsGreatestBuild ==
    /\ [](GreatestKept /\ ListedExist)
    /\ [][(/\ apc = "builds"
           /\ buildIndex <= Len(image_dict[keyIndex].v)
           /\ Name(image_dict[keyIndex].k, image_dict[keyIndex].v[buildIndex]) \notin exists)
             => /\ apc' = "exit"
                /\ exit_status' # None
                /\ image_to_archive' = image_to_archive]_vars

====
